---- MODULE Spec2Model ----
(***************************************************************************)
(* Warnings Analyzer (streamlit_warnings_analyzer.py): the log loader      *)
(* (parse_ts, parse_file) and one interaction of main (time filter,        *)
(* per-minute aggregates, Top-N ranking, cumulative trend, summary).       *)
(*                                                                         *)
(* Text is modelled as tuples: a timestamp string is the tuple of its      *)
(* separator and numeric groups, any other field a short tuple, and the    *)
(* empty field, which read_csv turns into NaN, the empty tuple.            *)
(***************************************************************************)
EXTENDS Integers, Sequences, FiniteSets, TLC

VARIABLES pc, uploaded, df, use_filter, sel_start, sel_end, dfq,
          count_per_minute, spm, subsystem_total, topN, top_list,
          top_per_minute, cumulative, summary, outcome

vars == <<pc, uploaded, df, use_filter, sel_start, sel_end, dfq,
          count_per_minute, spm, subsystem_total, topN, top_list,
          top_per_minute, cumulative, summary, outcome>>

----------------------------------------------------------------------------
(* Bounds of the explored inputs *)

\* rows of an uploaded table, interaction of main
MaxRows == 3
\* rows and columns of an uploaded table, schema inference
SchemaRows == 1
SchemaCols == 14

----------------------------------------------------------------------------
(* Generic helpers *)

Min(a, b) == IF a <= b THEN a ELSE b

Range(s) == {s[i] : i \in 1..Len(s)}

RECURSIVE SumSeq(_)
SumSeq(s) == IF s = <<>> THEN 0 ELSE s[1] + SumSeq(Tail(s))

\* the elements of a set of integers, ascending
RECURSIVE SortedSeq(_)
SortedSeq(S) ==
    IF S = {} THEN <<>>
    ELSE LET m == CHOOSE x \in S : \A y \in S : x <= y
         IN <<m>> \o SortedSeq(S \ {m})

----------------------------------------------------------------------------
(* Values *)

NaN == <<>>
NaT == -1

\* "2024-MM-DD hh:mm:ss" is <<"-", MM, DD, hh, mm, ss>> and
\* "DD/MM/2024 hh:mm:ss" is <<"/", DD, MM, hh, mm, ss>>
TsSamples ==
    { <<"-", 1, 1, 10, 0, 0>>,
      <<"/", 1, 1, 10, 0, 30>>,
      <<"-", 1, 1, 10, 1, 0>>,
      <<"garbage">> }

TsSamplesSchema ==
    TsSamples \cup { <<"/", 2, 1, 10, 0, 0>>, <<"/", 1, 13, 10, 1, 30>>, NaN }

SubA == <<"SubA">>
SubB == <<"SubB">>
\* lexicographic order of the subsystem labels
SubNames == <<SubA, SubB>>
SubSamples == {SubA, SubB, NaN}

DaysIn(month) ==
    IF month = 2 THEN 29
    ELSE IF month \in {4, 6, 9, 11} THEN 30 ELSE 31

RECURSIVE DaysBefore(_)
DaysBefore(month) ==
    IF month <= 1 THEN 0 ELSE DaysIn(month - 1) + DaysBefore(month - 1)

\* seconds since 2024-01-01 00:00:00
Instant(month, day, hh, mm, ss) ==
    (((DaysBefore(month) + day - 1) * 24 + hh) * 60 + mm) * 60 + ss

ValidDate(month, day) ==
    /\ month \in 1..12
    /\ day \in 1..DaysIn(month)

\* datetime.strptime(s, "%d/%m/%Y %H:%M:%S"); NaT stands for the exception
StrptimeDMY(s) ==
    IF Len(s) = 6 /\ s[1] = "/" /\ ValidDate(s[3], s[2])
    THEN Instant(s[3], s[2], s[4], s[5], s[6])
    ELSE NaT

\* datetime.strptime(s, "%Y-%m-%d %H:%M:%S")
StrptimeYMD(s) ==
    IF Len(s) = 6 /\ s[1] = "-" /\ ValidDate(s[2], s[3])
    THEN Instant(s[2], s[3], s[4], s[5], s[6])
    ELSE NaT

\* pd.to_datetime(s, errors="coerce"): the month comes first in a
\* slash-separated date; text that is no date, and NaN, give NaT
ToDatetimeCoerce(s) ==
    IF Len(s) = 6 /\ s[1] = "/" /\ ValidDate(s[2], s[3])
    THEN Instant(s[2], s[3], s[4], s[5], s[6])
    ELSE NaT

parse_ts(s) ==
    IF StrptimeDMY(s) # NaT THEN StrptimeDMY(s)
    ELSE IF StrptimeYMD(s) # NaT THEN StrptimeYMD(s)
    ELSE ToDatetimeCoerce(s)

\* Series.dt.floor("min")
FloorMin(t) == t - (t % 60)

----------------------------------------------------------------------------
(* Uploaded tables: what read_csv(header=None, dtype=str) returns *)

RawRows(c, stamps) ==
    { [k \in 1..c |-> IF k = 1 THEN ts
                      ELSE IF k = 4 THEN sub
                      ELSE <<"f", k>>] :
        ts \in stamps, sub \in (IF c >= 4 THEN SubSamples ELSE {NaN}) }

Tables(c, maxr, stamps) ==
    UNION { [1..n -> RawRows(c, stamps)] : n \in 1..maxr }

NoUpload == [present |-> FALSE, col_count |-> 0, rows |-> <<>>]

Uploads(counts, maxr, stamps) ==
    {NoUpload} \cup
    UNION { { [present |-> TRUE, col_count |-> c, rows |-> t] :
                t \in Tables(c, maxr, stamps) } : c \in counts }

\* column counts without and with a Subsystem column
MainColCounts == {3, 4}

----------------------------------------------------------------------------
(* parse_file *)

full_cols ==
    <<"Timestamp", "Code", "Status", "Subsystem", "Category",
      "Detail1", "Message", "Flag1", "Detail2",
      "Value1", "Value2", "Value3", "Flag2">>

base_cols ==
    <<"Timestamp", "Code", "Status", "Subsystem", "Category", "Detail1", "Message">>

\* keep as it would be with one Basic-layout name missing
keep_short(col_count) == Min(col_count, Len(base_cols) - 1)

\* keep = min(col_count, len(base_cols))
keep(col_count) == Min(col_count, Len(base_cols))

\* the names given to the kept columns
layout(col_count) ==
    IF col_count >= 13 THEN full_cols
    ELSE SubSeq(base_cols, 1, keep(col_count))

ColIndex(columns, name) == CHOOSE k \in 1..Len(columns) : columns[k] = name

\* df.iloc[:, :n] with df.columns = names: one labelled row per raw row
NamedRows(rows, names) ==
    [i \in 1..Len(rows) |->
        [index |-> i,
         vals  |-> [n \in Range(names) |-> rows[i][ColIndex(names, n)]]]]

\* df["Timestamp"] = df["Timestamp"].apply(parse_ts)
ApplyParseTs(rows) ==
    [i \in 1..Len(rows) |->
        [rows[i] EXCEPT !.vals =
            [n \in DOMAIN rows[i].vals |->
                IF n = "Timestamp" THEN parse_ts(rows[i].vals[n])
                ELSE rows[i].vals[n]]]]

\* the row test of a loader that drops nothing
KeepAll(r) == TRUE

\* the row test of dropna: the Timestamp is not null
HasTimestamp(r) == r.vals["Timestamp"] # NaT

\* df.dropna(subset=["Timestamp"])
DropNa(rows) == SelectSeq(rows, HasTimestamp)

\* df["Minute"] = df["Timestamp"].dt.floor("min")
AddMinute(rows) ==
    [i \in 1..Len(rows) |->
        [rows[i] EXCEPT !.vals =
            [n \in DOMAIN rows[i].vals \cup {"Minute"} |->
                IF n = "Minute" THEN FloorMin(rows[i].vals["Timestamp"])
                ELSE rows[i].vals[n]]]]

parse_file(file) ==
    LET names == layout(file.col_count)
    IN [columns |-> names \o <<"Minute">>,
        rows    |-> AddMinute(DropNa(ApplyParseTs(NamedRows(file.rows, names))))]

EmptyFrame == [columns |-> <<>>, rows |-> <<>>]
EmptySeries == [index |-> <<>>, values |-> <<>>]
EmptyTable == [index |-> <<>>, columns |-> <<>>, data |-> <<>>]

\* an emptiness test that never answers yes
Never(frame) == FALSE

\* DataFrame.empty
IsEmpty(frame) == Len(frame.rows) = 0

----------------------------------------------------------------------------
(* main: time range and filter *)

Stamp(r) == r.vals["Timestamp"]
Minute(r) == r.vals["Minute"]

\* df["Minute"].sort_values().drop_duplicates()
MinuteTicks(frame) == SortedSeq({Minute(r) : r \in Range(frame.rows)})

\* slider bounds and defaults
min_t(frame) == MinuteTicks(frame)[1]
max_t(frame) == MinuteTicks(frame)[Len(MinuteTicks(frame))]

\* the mask with both bounds exclusive
InRangeStrict(r, start, end) == Stamp(r) > start /\ Stamp(r) < end

\* (df["Timestamp"] >= sel_start) & (df["Timestamp"] <= sel_end)
InRange(r, start, end) == Stamp(r) >= start /\ Stamp(r) <= end

\* df.loc[mask]
TimeFilter(frame, start, end) ==
    [frame EXCEPT !.rows =
        SelectSeq(frame.rows, LAMBDA r : InRange(r, start, end))]

----------------------------------------------------------------------------
(* main: aggregates *)

\* rows of one minute, and of one minute and subsystem
MinuteRows(rows, m) == {k \in 1..Len(rows) : Minute(rows[k]) = m}

\* a per-minute table that marks the minutes without counting their rows
GroupSizeDistinct(frame) ==
    LET idx == MinuteTicks(frame)
    IN [index  |-> idx,
        values |-> [i \in 1..Len(idx) |-> 1]]

\* dfq.groupby("Minute").size()
GroupSize(frame) ==
    LET idx == MinuteTicks(frame)
    IN [index  |-> idx,
        values |-> [i \in 1..Len(idx) |->
                      Cardinality(MinuteRows(frame.rows, idx[i]))]]

HasSubsystem(frame) == "Subsystem" \in Range(frame.columns)

Subsystem(r) == r.vals["Subsystem"]

\* groupby drops the rows whose key is NaN
Labelled(rows) == SelectSeq(rows, LAMBDA r : Subsystem(r) # NaN)

\* groupby(["Minute", "Subsystem"]).size().unstack(fill_value=0)
GroupUnstack(rows) ==
    LET lab  == Labelled(rows)
        idx  == SortedSeq({Minute(r) : r \in Range(lab)})
        cols == SelectSeq(SubNames,
                          LAMBDA s : \E r \in Range(lab) : Subsystem(r) = s)
    IN [index   |-> idx,
        columns |-> cols,
        data    |-> [i \in 1..Len(idx) |-> [j \in 1..Len(cols) |->
                       Cardinality({k \in MinuteRows(lab, idx[i]) :
                                      Subsystem(lab[k]) = cols[j]})]]]

FirstPos(rows, s) == CHOOSE k \in 1..Len(rows) :
    /\ Subsystem(rows[k]) = s
    /\ \A h \in 1..(k - 1) : Subsystem(rows[h]) # s

\* the ranking with the smallest count first
RankAscending(labels, cnt, first) ==
    [p \in 1..Cardinality(labels) |->
        CHOOSE s \in labels :
            Cardinality({u \in labels :
                \/ cnt[u] < cnt[s]
                \/ cnt[u] = cnt[s] /\ first[u] < first[s]}) = p - 1]

\* descending by count, equal counts in order of first occurrence
RankDescending(labels, cnt, first) ==
    [p \in 1..Cardinality(labels) |->
        CHOOSE s \in labels :
            Cardinality({u \in labels :
                \/ cnt[u] > cnt[s]
                \/ cnt[u] = cnt[s] /\ first[u] < first[s]}) = p - 1]

\* dfq["Subsystem"].value_counts()
value_counts(rows) ==
    LET lab    == Labelled(rows)
        labels == {Subsystem(r) : r \in Range(lab)}
        cnt    == [s \in labels |->
                       Cardinality({k \in 1..Len(lab) : Subsystem(lab[k]) = s})]
        first  == [s \in labels |-> FirstPos(lab, s)]
        idx    == RankDescending(labels, cnt, first)
    IN [index  |-> idx,
        values |-> [p \in 1..Len(idx) |-> cnt[idx[p]]]]

\* number_input(min_value=1, max_value=min(20, n), value=min(5, n))
TopNMax(totals) == Min(20, Len(totals.index))
TopNDefault(totals) == Min(5, Len(totals.index))

\* Series.head(n)
head(s, n) == SubSeq(s, 1, Min(n, Len(s)))

\* dfq[dfq["Subsystem"].isin(top_list)]
IsIn(rows, labels) == SelectSeq(rows, LAMBDA r : Subsystem(r) \in Range(labels))

Column(table, j) == [i \in 1..Len(table.index) |-> table.data[i][j]]

\* the table left as it is, no running sum
NoCumSum(table) == table

\* DataFrame.cumsum()
CumSum(table) ==
    [table EXCEPT !.data =
        [i \in 1..Len(table.index) |-> [j \in 1..Len(table.columns) |->
            SumSeq(SubSeq(Column(table, j), 1, i))]]]

Max(s) == CHOOSE x \in Range(s) : \A y \in Range(s) : y <= x

\* Series.idxmax(): the first label where the maximum is taken
IdxMax(index, col) ==
    index[CHOOSE i \in 1..Len(col) :
            col[i] = Max(col) /\ \A h \in 1..(i - 1) : col[h] # Max(col)]

\* spm.mean(axis=0), kept as numerator and denominator
Mean(col) == [num |-> SumSeq(col), den |-> Len(col)]

\* the summary table, one row per subsystem
Summary(table, totals) ==
    [s \in Range(table.columns) \cup Range(totals.index) |->
        LET col == Column(table, ColIndex(table.columns, s))
        IN [total      |-> totals.values[ColIndex(totals.index, s)],
            mean       |-> Mean(col),
            peak_time  |-> IF SumSeq(col) > 0 THEN IdxMax(table.index, col) ELSE NaT,
            peak_value |-> IF SumSeq(col) > 0 THEN Max(col) ELSE 0]]

----------------------------------------------------------------------------
(* One interaction of main *)

InitWith(files) ==
    /\ pc = "start"
    /\ uploaded \in files
    /\ df = EmptyFrame
    /\ use_filter = FALSE
    /\ sel_start = 0
    /\ sel_end = 0
    /\ dfq = EmptyFrame
    /\ count_per_minute = EmptySeries
    /\ spm = EmptyTable
    /\ subsystem_total = EmptySeries
    /\ topN = 0
    /\ top_list = <<>>
    /\ top_per_minute = EmptyTable
    /\ cumulative = EmptyTable
    /\ summary = <<>>
    /\ outcome = "running"

Init == InitWith(Uploads(MainColCounts, MaxRows, TsSamples))

InitSchema == InitWith(Uploads(1..SchemaCols, SchemaRows, TsSamplesSchema))

Finish(result) ==
    /\ pc' = "end"
    /\ outcome' = result

\* if not uploaded: st.info(...); return
NoFile ==
    /\ pc = "start"
    /\ ~uploaded.present
    /\ Finish("info_upload_first")
    /\ UNCHANGED <<uploaded, df, use_filter, sel_start, sel_end, dfq,
                   count_per_minute, spm, subsystem_total, topN, top_list,
                   top_per_minute, cumulative, summary>>

\* df = parse_file(uploaded.read(), uploaded.name)
LoadFile ==
    /\ pc = "start"
    /\ uploaded.present
    /\ df' = parse_file(uploaded)
    /\ pc' = "loaded"
    /\ UNCHANGED <<uploaded, use_filter, sel_start, sel_end, dfq,
                   count_per_minute, spm, subsystem_total, topN, top_list,
                   top_per_minute, cumulative, summary, outcome>>

\* if df.empty: st.error(...); return
NoValidData ==
    /\ pc = "loaded"
    /\ IsEmpty(df)
    /\ Finish("error_no_valid_data")
    /\ UNCHANGED <<uploaded, df, use_filter, sel_start, sel_end, dfq,
                   count_per_minute, spm, subsystem_total, topN, top_list,
                   top_per_minute, cumulative, summary>>

\* checkbox, slider and the filter; the slider offers whole minutes between
\* min_t and max_t, of which the minutes of the data are explored
SelectRange ==
    /\ pc = "loaded"
    /\ ~IsEmpty(df)
    /\ \E use \in BOOLEAN, start, end \in Range(MinuteTicks(df)) :
        /\ start <= end
        /\ ~use => start = min_t(df) /\ end = max_t(df)
        /\ use_filter' = use
        /\ sel_start' = start
        /\ sel_end' = end
        /\ dfq' = IF use THEN TimeFilter(df, start, end) ELSE df
    /\ IF use_filter' /\ IsEmpty(dfq')
       THEN Finish("error_no_data_in_range")
       ELSE pc' = "filtered" /\ outcome' = outcome
    /\ UNCHANGED <<uploaded, df, count_per_minute, spm, subsystem_total, topN,
                   top_list, top_per_minute, cumulative, summary>>

\* count_per_minute, then the branch on "Subsystem" in dfq.columns
PerMinute ==
    /\ pc = "filtered"
    /\ count_per_minute' = GroupSize(dfq)
    /\ IF HasSubsystem(dfq)
       THEN pc' = "subsystem" /\ outcome' = outcome
       ELSE Finish("info_no_subsystem")
    /\ UNCHANGED <<uploaded, df, use_filter, sel_start, sel_end, dfq, spm,
                   subsystem_total, topN, top_list, top_per_minute,
                   cumulative, summary>>

\* spm and subsystem_total
PerSubsystem ==
    /\ pc = "subsystem"
    /\ spm' = GroupUnstack(dfq.rows)
    /\ subsystem_total' = value_counts(dfq.rows)
    /\ pc' = "topn"
    /\ UNCHANGED <<uploaded, df, use_filter, sel_start, sel_end, dfq,
                   count_per_minute, topN, top_list, top_per_minute,
                   cumulative, summary, outcome>>

\* number_input raises when its default lies outside [min_value, max_value]
TopNRejected ==
    /\ pc = "topn"
    /\ ~(1 <= TopNDefault(subsystem_total)
         /\ TopNDefault(subsystem_total) <= TopNMax(subsystem_total))
    /\ Finish("exception")
    /\ UNCHANGED <<uploaded, df, use_filter, sel_start, sel_end, dfq,
                   count_per_minute, spm, subsystem_total, topN, top_list,
                   top_per_minute, cumulative, summary>>

\* Top-N choice, Top-N tables, cumulative trend and summary
TopNCharts ==
    /\ pc = "topn"
    /\ 1 <= TopNDefault(subsystem_total)
    /\ TopNDefault(subsystem_total) <= TopNMax(subsystem_total)
    /\ \E n \in 1..TopNMax(subsystem_total) :
        /\ topN' = n
        /\ top_list' = head(subsystem_total.index, n)
    /\ top_per_minute' = GroupUnstack(IsIn(dfq.rows, top_list'))
    /\ cumulative' = CumSum(top_per_minute')
    /\ summary' = Summary(spm, subsystem_total)
    /\ Finish("done")
    /\ UNCHANGED <<uploaded, df, use_filter, sel_start, sel_end, dfq,
                   count_per_minute, spm, subsystem_total>>

Next ==
    \/ NoFile
    \/ LoadFile
    \/ NoValidData
    \/ SelectRange
    \/ PerMinute
    \/ PerSubsystem
    \/ TopNRejected
    \/ TopNCharts

Spec == Init /\ [][Next]_vars

SpecSchema == InitSchema /\ [][Next]_vars

----------------------------------------------------------------------------
(* Properties *)

Loaded == pc # "start" /\ uploaded.present

\* the filter step has run and let the interaction go on
Filtered == pc \in {"filtered", "subsystem", "topn"}
            \/ outcome \in {"info_no_subsystem", "exception", "done"}

\* count_per_minute has been computed
Aggregated == pc \in {"subsystem", "topn"}
              \/ outcome \in {"info_no_subsystem", "exception", "done"}

RowsOf(frame) == Range(frame.rows)

SubsystemCount(frame, s) ==
    Cardinality({k \in 1..Len(frame.rows) : frame.rows[k].vals["Subsystem"] = s})

FullNames ==
    <<"Timestamp", "Code", "Status", "Subsystem", "Category", "Detail1",
      "Message", "Flag1", "Detail2", "Value1", "Value2", "Value3", "Flag2">>

BasicNames ==
    <<"Timestamp", "Code", "Status", "Subsystem", "Category", "Detail1", "Message">>

ExpectedNames(c) ==
    IF c >= 13 THEN FullNames
    ELSE SubSeq(BasicNames, 1, IF c < 7 THEN c ELSE 7)

\* C1: for every column count c >= 1 the loaded records carry exactly the 13
\* Full-layout names when c >= 13 and exactly the first min(c, 7) Basic-layout
\* names when c < 13, in the fixed order, each taken from the raw field at
\* the same position (the Timestamp through parse_ts); further raw fields are
\* discarded and the only other column is the derived Minute key.
C1_SchemaInference ==
    Loaded =>
        LET names == ExpectedNames(uploaded.col_count)
        IN /\ df.columns = names \o <<"Minute">>
           /\ \A i \in 1..Len(df.rows) :
                LET r   == df.rows[i]
                    raw == uploaded.rows[r.index]
                IN /\ DOMAIN r.vals = Range(names) \cup {"Minute"}
                   /\ r.vals["Timestamp"] = parse_ts(raw[1])
                   /\ \A k \in 2..Len(names) : r.vals[names[k]] = raw[k]

C1_Witness ==
    /\ pc = "loaded"
    /\ uploaded.col_count = 14
    /\ Len(df.rows) = 1
    /\ df.rows[1].vals["Flag2"] = <<"f", 13>>

FailsEveryStrategy(s) ==
    /\ StrptimeDMY(s) = NaT
    /\ StrptimeYMD(s) = NaT
    /\ ToDatetimeCoerce(s) = NaT

\* the labels 1..n of the raw rows whose Timestamp parses, ascending
ParseableLabels(rows) ==
    SortedSeq({i \in 1..Len(rows) : ~FailsEveryStrategy(rows[i][1])})

\* C2: the Dataset holds exactly the rows whose Timestamp parses, in their
\* original order; its length is the input row count minus the number of
\* rows failing every parse strategy; no record has a null Timestamp or a
\* null Minute.
C2_DropRule ==
    Loaded =>
        /\ [i \in 1..Len(df.rows) |-> df.rows[i].index]
               = ParseableLabels(uploaded.rows)
        /\ Len(df.rows) = Len(uploaded.rows)
               - Cardinality({i \in 1..Len(uploaded.rows) :
                                FailsEveryStrategy(uploaded.rows[i][1])})
        /\ \A r \in RowsOf(df) :
               r.vals["Timestamp"] # NaT /\ r.vals["Minute"] # NaT

C2_Witness ==
    /\ pc = "loaded"
    /\ Len(uploaded.rows) = 3
    /\ Len(df.rows) = 2
    /\ df.rows[1].index = 1
    /\ df.rows[2].index = 3

\* C3: the per-minute total has one entry for each distinct Minute of the
\* dataset being aggregated and no other, and its counts add up to the
\* number of records of that dataset.
C3_CountConservation ==
    Aggregated =>
        LET present == {r.vals["Minute"] : r \in RowsOf(dfq)}
        IN /\ Range(count_per_minute.index) = present
           /\ Len(count_per_minute.index) = Cardinality(present)
           /\ Len(count_per_minute.values) = Len(count_per_minute.index)
           /\ SumSeq(count_per_minute.values) = Len(dfq.rows)

C3_Witness ==
    /\ Aggregated
    /\ use_filter
    /\ Len(dfq.rows) = 3
    /\ count_per_minute.values = <<2, 1>>

MinStamp(frame) ==
    CHOOSE t \in {r.vals["Timestamp"] : r \in RowsOf(frame)} :
        \A r \in RowsOf(frame) : t <= r.vals["Timestamp"]

MaxStamp(frame) ==
    CHOOSE t \in {r.vals["Timestamp"] : r \in RowsOf(frame)} :
        \A r \in RowsOf(frame) : r.vals["Timestamp"] <= t

\* C4: on a non-empty Dataset the inclusive time-range filter with start the
\* minimum and end the maximum Timestamp returns the same records in the
\* same order, as an operation and whenever those bounds are the selection.
C4_FilterIdentity ==
    (Loaded /\ Len(df.rows) > 0) =>
        /\ TimeFilter(df, MinStamp(df), MaxStamp(df)) = df
        /\ (Filtered /\ use_filter /\ sel_start = MinStamp(df)
                     /\ sel_end = MaxStamp(df)) => dfq = df

C4_Witness ==
    /\ Filtered
    /\ use_filter
    /\ Len(df.rows) = 3
    /\ sel_start = MinStamp(df)
    /\ sel_end = MaxStamp(df)
    /\ sel_start < sel_end
    /\ dfq = df

\* C5: with the filter enabled and the bounds left at the slider defaults,
\* every record of the Dataset lies within the bounds and the filtered
\* dataset equals the unfiltered one.
C5_DefaultBoundsCoverAll ==
    (Loaded /\ pc # "loaded" /\ Len(df.rows) > 0 /\ use_filter
       /\ sel_start = min_t(df) /\ sel_end = max_t(df)) =>
        /\ \A r \in RowsOf(df) :
               sel_start <= r.vals["Timestamp"] /\ r.vals["Timestamp"] <= sel_end
        /\ dfq = df

\* C6: for every subsystem of the summary the mean per-minute count equals
\* its total record count divided by the number of distinct Minute values of
\* the dataset being aggregated.
C6_MeanOverAllMinutes ==
    outcome = "done" =>
        LET minutes == {r.vals["Minute"] : r \in RowsOf(dfq)}
        IN \A s \in DOMAIN summary :
               summary[s].mean.num * Cardinality(minutes)
                   = SubsystemCount(dfq, s) * summary[s].mean.den

\* C7: each subsystem column of the cumulative table is non-decreasing in
\* ascending minute order, its k-th value is the sum of the first k values
\* of that column of the Top-N per-minute table, and its last value is that
\* subsystem's record count in the dataset being aggregated.
C7_CumulativeTrend ==
    outcome = "done" =>
        LET n == Len(top_per_minute.index)
        IN /\ cumulative.index = top_per_minute.index
           /\ cumulative.columns = top_per_minute.columns
           /\ Range(cumulative.columns) = Range(top_list)
           /\ \A i \in 1..(n - 1) : cumulative.index[i] < cumulative.index[i + 1]
           /\ \A j \in 1..Len(cumulative.columns) :
                /\ cumulative.data[1][j] = top_per_minute.data[1][j]
                /\ \A i \in 2..n :
                     /\ cumulative.data[i][j] =
                            cumulative.data[i - 1][j] + top_per_minute.data[i][j]
                     /\ cumulative.data[i - 1][j] <= cumulative.data[i][j]
                /\ cumulative.data[n][j] =
                       SubsystemCount(dfq, cumulative.columns[j])

C7_Witness ==
    /\ outcome = "done"
    /\ Len(cumulative.index) = 2
    /\ Len(cumulative.columns) = 1
    /\ cumulative.data[1][1] = 1
    /\ cumulative.data[2][1] = 3

\* C8: for N1 < N2 within the allowed range the Top-N1 subsystems are among
\* the Top-N2 subsystems; the ranking is descending by record count, each
\* selection is a prefix of it, and no unselected subsystem has a strictly
\* higher total than a selected one.
C8_TopNMonotone ==
    (pc = "topn" \/ outcome = "done") =>
        LET rank == subsystem_total.index
        IN /\ \A p \in 1..Len(rank) :
                subsystem_total.values[p] = SubsystemCount(dfq, rank[p])
           /\ \A p, q \in 1..Len(rank) :
                p < q => subsystem_total.values[p] >= subsystem_total.values[q]
           /\ \A n1, n2 \in 1..TopNMax(subsystem_total) :
                n1 < n2 => /\ Range(head(rank, n1)) \subseteq Range(head(rank, n2))
                           /\ head(rank, n1) = SubSeq(rank, 1, n1)
                           /\ head(rank, n2) = SubSeq(rank, 1, n2)
           /\ outcome = "done" =>
                /\ top_list = SubSeq(rank, 1, topN)
                /\ \A s \in Range(top_list) : \A u \in Range(rank) \ Range(top_list) :
                     SubsystemCount(dfq, u) <= SubsystemCount(dfq, s)

C8_Witness ==
    /\ outcome = "done"
    /\ topN = 1
    /\ subsystem_total.index = <<SubB, SubA>>
    /\ subsystem_total.values = <<2, 1>>
    /\ top_list = <<SubB>>

NoAggregates ==
    /\ count_per_minute = EmptySeries
    /\ spm = EmptyTable
    /\ subsystem_total = EmptySeries
    /\ top_per_minute = EmptyTable
    /\ cumulative = EmptyTable
    /\ summary = <<>>

\* C9: an empty Dataset after parsing ends the run in the 'no valid data'
\* error and an empty filtered dataset in the distinct 'no data in range'
\* error, in both cases without any aggregate; aggregates are computed only
\* from a non-empty dataset, and neither condition raises.
C9_EmptyOutcomes ==
    /\ (Loaded /\ pc # "loaded" /\ Len(df.rows) = 0)
           => outcome = "error_no_valid_data"
    /\ outcome = "error_no_valid_data" => Len(df.rows) = 0 /\ NoAggregates
    /\ (Loaded /\ pc # "loaded" /\ use_filter /\ Len(dfq.rows) = 0)
           => outcome = "error_no_data_in_range"
    /\ outcome = "error_no_data_in_range"
           => /\ use_filter
              /\ Len(df.rows) > 0
              /\ Len(dfq.rows) = 0
              /\ NoAggregates
    /\ ~NoAggregates => Len(dfq.rows) > 0
    /\ outcome = "exception" => Len(df.rows) > 0 /\ Len(dfq.rows) > 0

C9_Witness ==
    /\ outcome = "error_no_data_in_range"
    /\ use_filter
    /\ Len(df.rows) = 2
    /\ Len(dfq.rows) = 0

\* C10: whenever a run reaches the Top-N input of the per-subsystem branch,
\* the distinct-subsystem count is at least 1, so that
\* 1 <= min(5, count) <= min(20, count).
C10_TopNRangeWellFormed ==
    pc = "topn" =>
        /\ Len(subsystem_total.index) >= 1
        /\ 1 <= TopNDefault(subsystem_total)
        /\ TopNDefault(subsystem_total) <= TopNMax(subsystem_total)

====
